---------------------------- MODULE Spec2Model ----------------------------
(***************************************************************************)
(* A model of geovista.filters.remesh (src/src/geovista/filters.py).       *)
(*                                                                         *)
(* A mesh is a record                                                      *)
(*     [pts, cells, pd, cd]                                                *)
(* pts   : sequence of points, each a function from the names of the       *)
(*         point arrays (pd) to that point's value in the array;           *)
(* cells : sequence of cells [v |-> point indices, d |-> function from     *)
(*         the names of the cell arrays (cd) to the cell's value].         *)
(* Point positions are not modelled: the geometry shows only as the        *)
(* outcome of the intersection filter and as the longitudes of the cell    *)
(* centres, both drawn from bounded sets.  Longitudes are whole degrees.   *)
(* The radius, the cutting plane and the check argument (two diagnostic    *)
(* cell arrays) shape only that outcome and are not modelled apart.        *)
(***************************************************************************)
EXTENDS Integers, Sequences, FiniteSets, TLC

\* ------------------------------------------------------------------ bounds
\* The largest number of cells of an input mesh.
MaxCells == 1
\* The largest number of triangles the cutting plane splits in one call.
MaxSplit == 1
\* The largest number of points of the input that lie exactly on the cut.
MaxSeamPts == 0

\* --------------------------------------------------------------- constants
\* geovista.common (imported at filters.py 10-21).
GV_CELL_IDS == "gvOriginalCellIds"
GV_POINT_IDS == "gvOriginalPointIds"
GV_REMESH_POINT_IDS == "gvRemeshPointIds"
REMESH_JOIN == -3
REMESH_SEAM == -1
\* filters.py 38.
REMESH_SEAM_EAST == REMESH_SEAM - 1
\* filters.py 44.
VTK_BOUNDARY_MASK == "BoundaryPoints"
\* The helper arrays pyvista's extract_cells adds to what it extracts.
VTK_CELL_IDS == "vtkOriginalCellIds"
VTK_POINT_IDS == "vtkOriginalPointIds"

\* ------------------------------------------------------------ mesh helpers
Range(s) == {s[k] : k \in DOMAIN s}

\* How many elements of S are at most x; the x of S holding place r.
Rank(S, x) == Cardinality({y \in S : y <= x})
Nth(S, r) == CHOOSE x \in S : Rank(S, x) = r

\* f with name n bound to x; f without name n.
With(f, n, x) == [a \in (DOMAIN f) \cup {n} |-> IF a = n THEN x ELSE f[a]]
Without(f, n) == [a \in (DOMAIN f) \ {n} |-> f[a]]

\* pv.PolyData(): no points, no cells, no arrays.
EmptyMesh == [pts |-> <<>>, cells |-> <<>>, pd |-> {}, cd |-> {}]

n_cells(m) == Len(m.cells)
n_points(m) == Len(m.pts)

\* mesh.point_data[name] = vals, mesh.cell_data[name] = vals.
SetPointData(m, name, vals) ==
    [m EXCEPT !.pd = @ \cup {name},
              !.pts = [k \in 1..Len(@) |-> With(@[k], name, vals[k])]]
SetCellData(m, name, vals) ==
    [m EXCEPT !.cd = @ \cup {name},
              !.cells = [k \in 1..Len(@) |-> [@[k] EXCEPT !.d = With(@, name, vals[k])]]]

\* del mesh.point_data[name], del mesh.cell_data[name] (name present).
DelPointData(m, name) ==
    [m EXCEPT !.pd = @ \ {name},
              !.pts = [k \in 1..Len(@) |-> Without(@[k], name)]]
DelCellData(m, name) ==
    [m EXCEPT !.cd = @ \ {name},
              !.cells = [k \in 1..Len(@) |-> [@[k] EXCEPT !.d = Without(@, name)]]]

\* mesh[name] for a point array: the array, one value per point.
PointData(m, name) == [k \in 1..Len(m.pts) |-> m.pts[k][name]]
CellData(m, name) == [k \in 1..Len(m.cells) |-> m.cells[k].d[name]]

\* np.arange(n): 0 .. n-1.
arange(n) == [k \in 1..n |-> k - 1]


\* The concatenation of the sequences ss[1], ..., ss[k].
RECURSIVE Flat(_, _)
Flat(ss, k) == IF k = 0 THEN <<>> ELSE Flat(ss, k - 1) \o ss[k]

\* ------------------------------------------------------------- the inputs
\* An input mesh is a strip of polygons, each a triangle or a quadrilateral
\* that shares an edge with the one before it.
Shapes == UNION {[1..n -> {3, 4}] : n \in 0..MaxCells}

RECURSIVE StripPoints(_, _)
StripPoints(shape, k) ==
    IF k = 0 THEN 0
    ELSE IF k = 1 THEN shape[1]
    ELSE StripPoints(shape, k - 1) + shape[k] - 2

StripCell(shape, k) ==
    IF k = 1 THEN [j \in 1..shape[1] |-> j]
    ELSE LET e == StripPoints(shape, k - 1) IN [j \in 1..shape[k] |-> e - 2 + j]

\* The ids of a mesh that already carries provenance arrays when it is
\* passed in: whatever the caller put there, the sentinels included.
CallerCellId(k) == 2 * k
CallerPointId(k) == k - 3

\* The caller's mesh: the strip, with or without its own provenance arrays.
InputMesh(shape, hasCellIds, hasPointIds) ==
    LET bare == [pts |-> [k \in 1..StripPoints(shape, Len(shape)) |-> <<>>],
                 cells |-> [k \in 1..Len(shape) |-> [v |-> StripCell(shape, k), d |-> <<>>]],
                 pd |-> {}, cd |-> {}]
        c == IF hasCellIds
             THEN SetCellData(bare, GV_CELL_IDS, [k \in 1..n_cells(bare) |-> CallerCellId(k)])
             ELSE bare
    IN IF hasPointIds
       THEN SetPointData(c, GV_POINT_IDS, [k \in 1..n_points(c) |-> CallerPointId(k)])
       ELSE c

\* -------------------------------------------------- the steps of remesh
\* wrap(meridian)[0]: the angle brought into [-180, 180).
wrap(lon) == ((lon + 180) % 360) - 180

\* Mutant: poly0 is the caller's mesh itself.
CopyIsShallow == FALSE

\* mesh.copy(deep=True): the copy shares no storage with the mesh.
CopyIsDeep == TRUE

\* filters.py 115-119: the provenance arrays are created when they are absent.
TagCells(m) ==
    IF GV_CELL_IDS \notin m.cd THEN SetCellData(m, GV_CELL_IDS, arange(n_cells(m))) ELSE m
TagPoints(m) ==
    IF GV_POINT_IDS \notin m.pd THEN SetPointData(m, GV_POINT_IDS, arange(n_points(m))) ELSE m
TagMesh(m) == TagPoints(TagCells(m))

\* triangulated(poly0): every cell is a triangle.
triangulated(m) == \A k \in 1..n_cells(m) : Len(m.cells[k].v) = 3

\* poly0.triangulate(inplace=True): each polygon becomes a fan of triangles,
\* every triangle carrying the cell data of the polygon it came from.
Fan(c) == [j \in 1..(Len(c.v) - 2) |-> [v |-> <<c.v[1], c.v[j + 1], c.v[j + 2]>>, d |-> c.d]]
Triangulate(m) ==
    [m EXCEPT !.cells = Flat([k \in 1..Len(@) |-> Fan(@[k])], Len(@))]
Normalise(m) == IF ~triangulated(m) THEN Triangulate(m) ELSE m

\* vtkIntersectionPolyDataFilter, first input split (output port 1), when the
\* plane meets the mesh: the triangles of S are split, each by a new point on
\* the cut; a piece carries the cell data of the triangle it came from. The
\* points of B are the points of the input that lie on the cut. The
\* BoundaryPoints array marks the new points and the points of B.
SplitCell(c, new) ==
    <<[v |-> <<c.v[1], c.v[2], new>>, d |-> c.d], [v |-> <<c.v[1], new, c.v[3]>>, d |-> c.d]>>
SplitOutput(p, S, B) ==
    LET n == n_points(p)
    IN [pts |-> [q \in 1..(n + Cardinality(S)) |->
                   IF q <= n THEN With(p.pts[q], VTK_BOUNDARY_MASK, q \in B)
                   ELSE With(p.pts[p.cells[Nth(S, q - n)].v[2]], VTK_BOUNDARY_MASK, TRUE)],
        cells |-> Flat([k \in 1..n_cells(p) |->
                          IF k \in S THEN SplitCell(p.cells[k], n + Rank(S, k))
                          ELSE <<p.cells[k]>>], n_cells(p)),
        pd |-> p.pd \cup {VTK_BOUNDARY_MASK},
        cd |-> p.cd]

\* What the filter can return for poly0: nothing at all when the plane misses
\* the mesh (no points, no cells, no arrays), a split mesh otherwise.
Cuts(p) ==
    {sb \in (SUBSET (1..n_cells(p))) \X (SUBSET (1..n_points(p))) :
        /\ Cardinality(sb[1]) <= MaxSplit
        /\ Cardinality(sb[2]) <= MaxSeamPts
        /\ sb[1] \cup sb[2] # {}}
IntersectionOutputs(p) == {EmptyMesh} \cup {SplitOutput(p, sb[1], sb[2]) : sb \in Cuts(p)}

\* Mutants: the tie at 180 goes west; the eastern mask selects every cell.
upper_mask_tie(delta) == delta >= 180
EastMaskAll(west) == [k \in 1..Len(west) |-> TRUE]

\* filters.py 177-181: the masks of the two halves, from the longitudes of the
\* cell centres.
lower_mask(delta) == (delta < 0) /\ (delta > -180)
upper_mask(delta) == delta > 180
IsWest(delta) == lower_mask(delta) \/ upper_mask(delta)
WestMask(lons, mer) == [k \in 1..Len(lons) |-> IsWest(lons[k] - mer)]
EastMask(west) == [k \in 1..Len(west) |-> ~west[k]]

\* Mutant: the mask is ignored and every cell is extracted.
ExtractCellsAll(m, mask) ==
    [pts |-> [r \in 1..n_points(m) |-> With(m.pts[r], VTK_POINT_IDS, r - 1)],
     cells |-> [r \in 1..n_cells(m) |->
                  [m.cells[r] EXCEPT !.d = With(@, VTK_CELL_IDS, r - 1)]],
     pd |-> m.pd \cup {VTK_POINT_IDS},
     cd |-> m.cd \cup {VTK_CELL_IDS}]

\* remeshed.extract_cells(mask): the cells the mask selects, and the points
\* they use, renumbered; every array is carried over, and the two helper
\* arrays record where each cell and point came from.
ExtractCells(m, mask) ==
    LET C == {k \in 1..n_cells(m) : mask[k]}
        P == UNION {Range(m.cells[k].v) : k \in C}
    IN [pts |-> [r \in 1..Cardinality(P) |->
                    With(m.pts[Nth(P, r)], VTK_POINT_IDS, Nth(P, r) - 1)],
        cells |-> [r \in 1..Cardinality(C) |->
                    LET c == m.cells[Nth(C, r)]
                    IN [v |-> [j \in 1..Len(c.v) |-> Rank(P, c.v[j])],
                        d |-> With(c.d, VTK_CELL_IDS, Nth(C, r) - 1)]],
        pd |-> m.pd \cup {VTK_POINT_IDS},
        cd |-> m.cd \cup {VTK_CELL_IDS}]

\* cast_UnstructuredGrid_to_PolyData (filters.py 53-79): the geometry filter
\* passes the surface cells through. Of a grid with no cells it either keeps
\* the arrays or returns a bare mesh, as the VTK build has it.
cast_UnstructuredGrid_to_PolyData(ug, keepsArrays) ==
    IF n_cells(ug) = 0 /\ ~keepsArrays THEN EmptyMesh ELSE ug

\* remeshed[GV_REMESH_POINT_IDS][boundary_mask] = marker.
MarkSeam(m, boundary_mask, marker) ==
    SetPointData(m, GV_REMESH_POINT_IDS,
        [k \in 1..n_points(m) |->
            IF boundary_mask[k] THEN marker ELSE m.pts[k][GV_REMESH_POINT_IDS]])

\* Mutant: the points off the seam keep their point ids.
MarkJoinSkipped(half, marker) == half

\* half[GV_REMESH_POINT_IDS][np.where(half[...] != marker)] = REMESH_JOIN.
MarkJoin(half, marker) ==
    SetPointData(half, GV_REMESH_POINT_IDS,
        [k \in 1..n_points(half) |->
            IF half.pts[k][GV_REMESH_POINT_IDS] # marker
            THEN REMESH_JOIN ELSE half.pts[k][GV_REMESH_POINT_IDS]])

\* sanitize_data(mesh): the helper arrays of the extraction are purged.
sanitize_data(m) ==
    LET c == IF VTK_CELL_IDS \in m.cd THEN DelCellData(m, VTK_CELL_IDS) ELSE m
    IN IF VTK_POINT_IDS \in c.pd THEN DelPointData(c, VTK_POINT_IDS) ELSE c

\* Mutant: the test for an empty mesh is missing.
IsEmptyInputNever(m) == FALSE

\* filters.py 101: the test for an empty mesh.
IsEmptyInput(m) == n_cells(m) = 0

\* Mutant: the tagged, triangulated copy of the input is returned.
NoRemeshResultInput(p, out) == p

\* filters.py 166-172 and 216: what is returned as remeshed when the filter's
\* output has no cells: that output, as it is.
NoRemeshResult(p, out) == out

\* Mutant: the boundary mask is never deleted.
DropBoundaryMaskNever(m, boundary) == m

\* filters.py 194-195: the boundary mask stays only for a caller who asked.
DropBoundaryMask(m, boundary) ==
    IF ~boundary THEN DelPointData(m, VTK_BOUNDARY_MASK) ELSE m

\* filters.py 197: the staging copy of the point ids.
StageSeam(m) == SetPointData(m, GV_REMESH_POINT_IDS, PointData(m, GV_POINT_IDS))

\* Mutant: the staging copy stays on remeshed.
DropStagingNever(m) == m

\* filters.py 213: the staging copy leaves remeshed.
DropStaging(m) == DelPointData(m, GV_REMESH_POINT_IDS)

\* ------------------------------------------------------------- the state
\* display : vtkObject's process-wide GlobalWarningDisplay flag.
\* inv     : the invocations of remesh in progress, each with its arguments
\*           (mesh, meridian, boundary, warnings), its locals and its place
\*           in the code (pc).  orig is the mesh as it was at the call, geom
\*           the longitudes the geometry allows for the centres of cells,
\*           seen the flag as the filter saw it while it ran, bound the
\*           locals assigned so far, err the exception raised.
VARIABLES display, inv
vars == <<display, inv>>

NewCall(m, meridian, boundary, warnings, geom) ==
    [mesh |-> m, orig |-> m, meridian |-> meridian, boundary |-> boundary,
     warnings |-> warnings, geom |-> geom,
     pc |-> "start", err |-> "none", seen |-> "unset", path |-> "none",
     alias |-> FALSE, mer |-> 0, bound |-> {},
     poly0 |-> EmptyMesh, remeshed |-> EmptyMesh,
     remeshed_west |-> EmptyMesh, remeshed_east |-> EmptyMesh,
     lons |-> <<>>, west_mask |-> <<>>, east_mask |-> <<>>, boundary_mask |-> <<>>]

\* Spec: every input mesh of the bounds, with and without its own provenance
\* arrays, with and without the boundary mask asked for, cut at the
\* antimeridian with the warnings off (the default), and the bare meshes
\* with the warnings on as well; a centre lies on one side of the cut or on
\* the other.
SideLons == {-90, 90}
Meridians == {180}
Calls ==
    {NewCall(InputMesh(sh, hc, hp), mer, b, FALSE, SideLons) :
        sh \in Shapes, hc \in BOOLEAN, hp \in BOOLEAN, mer \in Meridians,
        b \in BOOLEAN}
    \cup {NewCall(InputMesh(sh, FALSE, FALSE), mer, FALSE, TRUE, SideLons) :
            sh \in Shapes, mer \in Meridians}

\* SpecClassify: one triangle (or nothing), cut at any meridian, its centres at
\* any longitude.

AllLons == {-180, -179, -91, -90, -1, 0, 1, 90, 91, 179, 180}
AllMeridians == {-540, -181, -180, -90, -1, 0, 1, 90, 179, 180, 270, 360}
ClassifyCalls ==
    {NewCall(InputMesh(sh, FALSE, FALSE), mer, FALSE, FALSE, AllLons) :
        sh \in {<<>>, <<3>>}, mer \in AllMeridians}

\* SpecConcurrent: two calls at once, each with the warnings on or off.
ConcurrentCalls ==
    {NewCall(InputMesh(sh, FALSE, FALSE), 0, FALSE, w, {90}) :
        sh \in {<<>>, <<3>>}, w \in BOOLEAN}

Init == display = TRUE /\ inv \in [{1} -> Calls]
InitClassify == display = TRUE /\ inv \in [{1} -> ClassifyCalls]
InitConcurrent == display = TRUE /\ inv \in [{1, 2} -> ConcurrentCalls]

\* An in-place operation on poly0 writes to the caller's mesh as well when
\* the two are one object.
InPlace(c, m) == [c EXCEPT !.poly0 = m, !.mesh = IF c.alias THEN m ELSE @]

\* filters.py 97-99.
WarnOff(i) ==
    /\ inv[i].pc = "start"
    /\ display' = IF ~inv[i].warnings THEN FALSE ELSE display
    /\ inv' = [inv EXCEPT ![i].pc = "check"]

\* filters.py 101-103.
CheckEmpty(i) ==
    /\ inv[i].pc = "check"
    /\ inv' = [inv EXCEPT ![i] =
                 IF IsEmptyInput(inv[i].mesh)
                 THEN [@ EXCEPT !.pc = "raised", !.err = "ValueError"]
                 ELSE [@ EXCEPT !.pc = "copy"]]
    /\ UNCHANGED display

\* filters.py 105-113.
CopyMesh(i) ==
    /\ inv[i].pc = "copy"
    /\ inv' = [inv EXCEPT ![i] =
                 [@ EXCEPT !.mer = wrap(inv[i].meridian), !.poly0 = inv[i].mesh,
                           !.alias = ~CopyIsDeep, !.bound = @ \cup {"poly0"},
                           !.pc = "tag"]]
    /\ UNCHANGED display

\* filters.py 115-119.
Tag(i) ==
    /\ inv[i].pc = "tag"
    /\ inv' = [inv EXCEPT ![i] = [InPlace(@, TagMesh(@.poly0)) EXCEPT !.pc = "triangulate"]]
    /\ UNCHANGED display

\* filters.py 121-128.
TriangulateMesh(i) ==
    /\ inv[i].pc = "triangulate"
    /\ inv' = [inv EXCEPT ![i] = [InPlace(@, Normalise(@.poly0)) EXCEPT !.pc = "intersect"]]
    /\ UNCHANGED display

\* filters.py 130-161: the filter runs, and shows its warnings or not as the
\* process-wide flag stands while it runs.
Intersect(i) ==
    /\ inv[i].pc = "intersect"
    /\ \E out \in IntersectionOutputs(inv[i].poly0) :
         inv' = [inv EXCEPT ![i] =
                   [@ EXCEPT !.remeshed = out, !.bound = @ \cup {"remeshed"},
                             !.seen = IF display THEN "on" ELSE "off",
                             !.pc = "warn_on"]]
    /\ UNCHANGED display

\* filters.py 163-164.
WarnOn(i) ==
    /\ inv[i].pc = "warn_on"
    /\ display' = IF ~inv[i].warnings THEN TRUE ELSE display
    /\ inv' = [inv EXCEPT ![i].pc = "branch"]

\* filters.py 166-172, 216.
NoRemesh(i) ==
    /\ inv[i].pc = "branch"
    /\ n_cells(inv[i].remeshed) = 0
    /\ inv' = [inv EXCEPT ![i] =
                 [@ EXCEPT !.remeshed = NoRemeshResult(inv[i].poly0, @),
                           !.remeshed_west = EmptyMesh, !.remeshed_east = EmptyMesh,
                           !.bound = @ \cup {"remeshed_west", "remeshed_east"},
                           !.path = "no_remesh", !.pc = "returned"]]
    /\ UNCHANGED display

\* filters.py 173-189.
Classify(i) ==
    /\ inv[i].pc = "branch"
    /\ n_cells(inv[i].remeshed) # 0
    /\ \E lons \in [1..n_cells(inv[i].remeshed) -> inv[i].geom] :
         LET west == WestMask(lons, inv[i].mer)
         IN inv' = [inv EXCEPT ![i] =
                      [@ EXCEPT !.lons = lons, !.west_mask = west,
                                !.east_mask = EastMask(west),
                                !.path = "split", !.pc = "west"]]
    /\ UNCHANGED display

\* filters.py 191-204. Line 203 raises KeyError when the western half came
\* back from the cast without its arrays.
WestPass(i) ==
    /\ inv[i].pc = "west"
    /\ LET c == inv[i]
           boundary_mask == PointData(c.remeshed, VTK_BOUNDARY_MASK)
           staged == MarkSeam(StageSeam(DropBoundaryMask(c.remeshed, c.boundary)),
                              boundary_mask, REMESH_SEAM)
           ug == ExtractCells(staged, c.west_mask)
       IN \E keepsArrays \in (IF n_cells(ug) = 0 THEN BOOLEAN ELSE {TRUE}) :
            LET half == cast_UnstructuredGrid_to_PolyData(ug, keepsArrays)
            IN inv' = [inv EXCEPT ![i] =
                 IF GV_REMESH_POINT_IDS \notin half.pd
                 THEN [@ EXCEPT !.remeshed = staged, !.remeshed_west = half,
                                !.boundary_mask = boundary_mask,
                                !.bound = @ \cup {"remeshed_west"},
                                !.pc = "raised", !.err = "KeyError"]
                 ELSE [@ EXCEPT !.remeshed = staged,
                                !.boundary_mask = boundary_mask,
                                !.remeshed_west = MarkJoin(half, REMESH_SEAM),
                                !.bound = @ \cup {"remeshed_west"},
                                !.pc = "east"]]
    /\ UNCHANGED display

\* filters.py 206-216, with the boundary mask of line 193. Line 210 raises
\* KeyError as line 203 does.
EastPass(i) ==
    /\ inv[i].pc = "east"
    /\ LET c == inv[i]
           staged == MarkSeam(c.remeshed, c.boundary_mask, REMESH_SEAM_EAST)
           ug == ExtractCells(staged, c.east_mask)
       IN \E keepsArrays \in (IF n_cells(ug) = 0 THEN BOOLEAN ELSE {TRUE}) :
            LET half == cast_UnstructuredGrid_to_PolyData(ug, keepsArrays)
            IN inv' = [inv EXCEPT ![i] =
                 IF GV_REMESH_POINT_IDS \notin half.pd
                 THEN [@ EXCEPT !.remeshed = staged, !.remeshed_east = half,
                                !.bound = @ \cup {"remeshed_east"},
                                !.pc = "raised", !.err = "KeyError"]
                 ELSE [@ EXCEPT !.remeshed = sanitize_data(DropStaging(staged)),
                                !.remeshed_west = sanitize_data(@),
                                !.remeshed_east = sanitize_data(MarkJoin(half, REMESH_SEAM_EAST)),
                                !.bound = @ \cup {"remeshed_east"},
                                !.pc = "returned"]]
    /\ UNCHANGED display

Next ==
    \/ \E i \in DOMAIN inv : WarnOff(i)
    \/ \E i \in DOMAIN inv : CheckEmpty(i)
    \/ \E i \in DOMAIN inv : CopyMesh(i)
    \/ \E i \in DOMAIN inv : Tag(i)
    \/ \E i \in DOMAIN inv : TriangulateMesh(i)
    \/ \E i \in DOMAIN inv : Intersect(i)
    \/ \E i \in DOMAIN inv : WarnOn(i)
    \/ \E i \in DOMAIN inv : NoRemesh(i)
    \/ \E i \in DOMAIN inv : Classify(i)
    \/ \E i \in DOMAIN inv : WestPass(i)
    \/ \E i \in DOMAIN inv : EastPass(i)

Spec == Init /\ [][Next]_vars
SpecClassify == InitClassify /\ [][Next]_vars
SpecConcurrent == InitConcurrent /\ [][Next]_vars

\* ------------------------------------------------------------ the claims
Returned(c) == c.pc = "returned"
Split(c) == c.path = "split"
NoHit(c) == c.path = "no_remesh"
\* The elements of seq the mask selects, in order.
Selected(seq, mask) ==
    LET C == {k \in 1..Len(seq) : mask[k]}
    IN [r \in 1..Cardinality(C) |-> seq[Nth(C, r)]]
SeamClass(m) == {m.pts[k][GV_REMESH_POINT_IDS] : k \in 1..n_points(m)}
CellIds(m) == {m.cells[k].d[GV_CELL_IDS] : k \in 1..n_cells(m)}

\* C1: when the filter's output has cells, every cell of remeshed is in
\* exactly one half: the masks are complements and the cell counts of west
\* and east add up to that of remeshed.
C1_PartitionComplete ==
    \A i \in DOMAIN inv :
        LET c == inv[i]
        IN Returned(c) /\ Split(c) =>
             /\ \A k \in 1..n_cells(c.remeshed) : c.west_mask[k] # c.east_mask[k]
             /\ n_cells(c.remeshed_west) + n_cells(c.remeshed_east) = n_cells(c.remeshed)
C1_Witness ==
    \E i \in DOMAIN inv :
        /\ Returned(inv[i]) /\ Split(inv[i])
        /\ n_cells(inv[i].remeshed_west) > 0
        /\ n_cells(inv[i].remeshed_east) > 0

\* C2 as claimed: when the filter's output has no cells, west and east are
\* empty and remeshed has the cells and the points of the input.
C2_RemeshedIsInput ==
    \A i \in DOMAIN inv :
        LET c == inv[i]
        IN Returned(c) /\ NoHit(c) =>
             /\ c.remeshed_west = EmptyMesh /\ c.remeshed_east = EmptyMesh
             /\ n_cells(c.remeshed) = n_cells(c.orig)
             /\ n_points(c.remeshed) = n_points(c.orig)
\* C2 as amended: when the filter's output has no cells, west and east are
\* empty meshes and remeshed is that output: it has no cells, while the
\* input has at least one.
C2_RemeshedIsFilterOutput ==
    \A i \in DOMAIN inv :
        LET c == inv[i]
        IN Returned(c) /\ NoHit(c) =>
             /\ c.remeshed_west = EmptyMesh /\ c.remeshed_east = EmptyMesh
             /\ n_cells(c.remeshed) = 0
             /\ n_cells(c.orig) > 0
C2_Witness ==
    \E i \in DOMAIN inv : Returned(inv[i]) /\ NoHit(inv[i]) /\ ~triangulated(inv[i].orig)

\* C3 as claimed: no origin_cell_id of a cell of west is that of a cell of
\* east.
C3_DisjointByOrigin ==
    \A i \in DOMAIN inv :
        LET c == inv[i]
        IN Returned(c) /\ Split(c) =>
             CellIds(c.remeshed_west) \cap CellIds(c.remeshed_east) = {}
\* C3 as amended: the halves are disjoint as cells of remeshed: no cell of
\* remeshed is selected for both, west holds the cells its mask selects and
\* east the others, each with the origin_cell_id it has in remeshed.
C3_DisjointByCell ==
    \A i \in DOMAIN inv :
        LET c == inv[i]
            ids == CellData(c.remeshed, GV_CELL_IDS)
        IN Returned(c) /\ Split(c) =>
             /\ \A k \in 1..n_cells(c.remeshed) : ~(c.west_mask[k] /\ c.east_mask[k])
             /\ CellData(c.remeshed_west, GV_CELL_IDS) = Selected(ids, c.west_mask)
             /\ CellData(c.remeshed_east, GV_CELL_IDS) = Selected(ids, c.east_mask)
C3_Witness ==
    \E i \in DOMAIN inv :
        /\ Returned(inv[i]) /\ Split(inv[i])
        /\ CellIds(inv[i].remeshed_west) \cap CellIds(inv[i].remeshed_east) # {}

\* C4: in what a call returns, every point of west is SEAM or JOIN and none
\* is SEAM_EAST; every point of east is SEAM_EAST or JOIN and none is SEAM.
C4_SeamMarkersDisjoint ==
    \A i \in DOMAIN inv :
        LET c == inv[i]
        IN Returned(c) =>
             /\ SeamClass(c.remeshed_west) \subseteq {REMESH_SEAM, REMESH_JOIN}
             /\ REMESH_SEAM_EAST \notin SeamClass(c.remeshed_west)
             /\ SeamClass(c.remeshed_east) \subseteq {REMESH_SEAM_EAST, REMESH_JOIN}
             /\ REMESH_SEAM \notin SeamClass(c.remeshed_east)
C4_Witness ==
    \E i \in DOMAIN inv :
        /\ Returned(inv[i]) /\ Split(inv[i])
        /\ SeamClass(inv[i].remeshed_west) = {REMESH_SEAM, REMESH_JOIN}
        /\ SeamClass(inv[i].remeshed_east) = {REMESH_SEAM_EAST, REMESH_JOIN}

\* C5: the boundary mask is on the returned remeshed only if the caller
\* asked for it.
C5_BoundaryMaskOnlyIfAsked ==
    \A i \in DOMAIN inv :
        Returned(inv[i]) /\ VTK_BOUNDARY_MASK \in inv[i].remeshed.pd => inv[i].boundary
C5_Witness ==
    \E i \in DOMAIN inv :
        /\ Returned(inv[i]) /\ Split(inv[i]) /\ ~inv[i].boundary
        /\ n_points(inv[i].remeshed) > 0
        /\ VTK_BOUNDARY_MASK \notin inv[i].remeshed.pd

\* C6 as claimed: on every return seam_class is on west and on east, and the
\* staging copy is not on remeshed.
C6_SeamClassOnBothHalves ==
    \A i \in DOMAIN inv :
        LET c == inv[i]
        IN Returned(c) =>
             /\ GV_REMESH_POINT_IDS \in c.remeshed_west.pd
             /\ GV_REMESH_POINT_IDS \in c.remeshed_east.pd
             /\ GV_REMESH_POINT_IDS \notin c.remeshed.pd
\* C6 as amended: on every return after a split seam_class is on west and on
\* east, an empty half included; on a return without a split west and east
\* are bare meshes and carry no seam_class; the staging copy is never on the
\* returned remeshed.
C6_SeamClassOnSplitHalves ==
    \A i \in DOMAIN inv :
        LET c == inv[i]
        IN Returned(c) =>
             /\ Split(c) => /\ GV_REMESH_POINT_IDS \in c.remeshed_west.pd
                            /\ GV_REMESH_POINT_IDS \in c.remeshed_east.pd
             /\ NoHit(c) => /\ GV_REMESH_POINT_IDS \notin c.remeshed_west.pd
                            /\ GV_REMESH_POINT_IDS \notin c.remeshed_east.pd
             /\ GV_REMESH_POINT_IDS \notin c.remeshed.pd
C6_Witness ==
    \E i \in DOMAIN inv :
        /\ Returned(inv[i]) /\ Split(inv[i])
        /\ n_cells(inv[i].remeshed_west) = 0
        /\ GV_REMESH_POINT_IDS \in inv[i].remeshed_west.pd

\* C7: the caller's mesh is at every moment of a call, and after it has
\* returned or raised, what it was when the call began.
C7_InputUnaltered == \A i \in DOMAIN inv : inv[i].mesh = inv[i].orig
C7_Witness ==
    \E i \in DOMAIN inv :
        /\ inv[i].pc \in {"returned", "raised"}
        /\ "poly0" \in inv[i].bound
        /\ ~triangulated(inv[i].orig)
        /\ triangulated(inv[i].poly0)
        /\ inv[i].orig.cd = {}
        /\ GV_CELL_IDS \in inv[i].poly0.cd

\* C8 as claimed: a call behaves as if it ran alone: its filter runs with the
\* warning display as the call's own warnings argument sets it.
C8_Isolated ==
    \A i \in DOMAIN inv :
        inv[i].seen # "unset" => inv[i].seen = (IF inv[i].warnings THEN "on" ELSE "off")

\* C9: a mesh without cells makes the call raise ValueError at once, before
\* any local is bound; nothing else raises it.
C9_EmptyMeshRaises ==
    \A i \in DOMAIN inv :
        LET c == inv[i]
        IN /\ n_cells(c.orig) = 0 /\ c.pc \notin {"start", "check"} =>
                c.pc = "raised" /\ c.err = "ValueError"
           /\ c.err = "ValueError" => n_cells(c.orig) = 0 /\ c.bound = {} /\ c.pc = "raised"
C9_Witness ==
    \E i \in DOMAIN inv : inv[i].pc = "raised" /\ inv[i].err = "ValueError"

\* C10: with delta the longitude of a cell's centre less the normalized
\* meridian, and delta in (-360, 360): the cell is west iff delta is in
\* (-180, 0) or in (180, 360), and east otherwise.
C10_WestIffInWestRange ==
    \A i \in DOMAIN inv :
        LET c == inv[i]
        IN Split(c) =>
             \A k \in 1..Len(c.lons) :
                 LET delta == c.lons[k] - wrap(c.meridian)
                     west == \/ -180 < delta /\ delta < 0
                             \/ 180 < delta /\ delta < 360
                 IN -360 < delta /\ delta < 360 =>
                      /\ c.west_mask[k] <=> west
                      /\ c.east_mask[k] <=> ~west
C10_Witness ==
    \E i \in DOMAIN inv :
        /\ Returned(inv[i]) /\ Split(inv[i])
        /\ \E k \in 1..Len(inv[i].lons) :
             /\ inv[i].lons[k] - inv[i].mer = -180
             /\ inv[i].east_mask[k]
        /\ \E k \in 1..Len(inv[i].lons) :
             /\ inv[i].lons[k] - inv[i].mer < -180
             /\ inv[i].east_mask[k]

\* C11: a call with the warnings off (the default) has switched the
\* process-wide warning display back on by the time it has ended, whether it
\* returned or raised.
C11_DisplayRestored ==
    \A i \in DOMAIN inv :
        inv[i].pc \in {"returned", "raised"} /\ ~inv[i].warnings => display = TRUE

=============================================================================
